---- MODULE Spec2Model ----
(***************************************************************************)
(* Tauri command handlers of src-tauri/src/lib.rs.                         *)
(*                                                                         *)
(* One invocation of one command is modelled per behaviour:                *)
(*   "pdf"     convert_pdf_to_markdown     (lines 125-182)                 *)
(*   "export"  export_markdown_via_pandoc  (lines 77-113)                  *)
(*   "install" install_wkhtmltopdf_winget  (lines 13-34)                   *)
(*                                                                         *)
(* A Rust string is a sequence of Unicode scalar values (code points); its *)
(* len() is the number of bytes of its UTF-8 encoding.                     *)
(***************************************************************************)
EXTENDS Integers, Sequences, FiniteSets, TLC

VARIABLES
    cmd,            \* the command that was invoked
    pc,             \* position of the handler in its body
    ret,            \* the handler's return value ([tag |-> "None"] before it returns)
    file,           \* convert_pdf_to_markdown: the text held by the file at file_path
    text,           \* convert_pdf_to_markdown: the extracted text
    lines,          \* convert_pdf_to_markdown: text.lines().collect()
    i,              \* number of elements of `lines` the first loop has consumed
    blocks,         \* convert_pdf_to_markdown: blocks
    current_block,  \* convert_pdf_to_markdown: current_block
    j,              \* number of elements of `blocks` the second loop has consumed
    result,         \* convert_pdf_to_markdown: result
    content,        \* export_markdown_via_pandoc: markdown_content, as its size
                    \* against the capacity of a pipe
    child,          \* export_markdown_via_pandoc: the pandoc process
    stdin,          \* export_markdown_via_pandoc: the write end of the child's stdin
    child_stdin,    \* the read end of the child's stdin, held by the pandoc
                    \* process and its descendants
    child_out,      \* the write ends of the child's stdout and stderr, held by
                    \* the pandoc process and its descendants
    reading,        \* the read end of the child's stdin is being drained
    status,         \* the exit status of the pandoc process
    wpc,            \* install_wkhtmltopdf_winget: position of the worker thread
    wres,           \* install_wkhtmltopdf_winget: the worker's `result`
    chan,           \* install_wkhtmltopdf_winget: messages in the mpsc channel
    tx,             \* install_wkhtmltopdf_winget: the Sender
    rx              \* install_wkhtmltopdf_winget: the Receiver

vars == <<cmd, pc, ret, file, text, lines, i, blocks, current_block, j, result,
          content, child, stdin, child_stdin, child_out, reading, status, wpc, wres, chan, tx, rx>>

pdfVars == <<file, text, lines, i, blocks, current_block, j, result>>
exportVars == <<content, child, stdin, child_stdin, child_out, reading, status>>
installVars == <<wpc, wres, chan, tx, rx>>

----------------------------------------------------------------------------
(* Bounds of the model *)

\* longest input, in lines
MaxLines == 3
\* most blank lines inserted at one place when inputs are compared
MaxInsert == 2

----------------------------------------------------------------------------
(* Program constants *)

\* text.len() < 80
HeadingMaxLen == 80
\* block.len() <= 2
MaxHeadingLines == 2
\* block.join(" ")
Space == 32
\* '\n', of "\n\n" and of str::lines
LF == 10
\* '#', of "## "
Hash == 35

\* "\n\n"
Separator == <<LF, LF>>
\* "## "
HeadingPrefix == <<Hash, Hash, Space>>
\* '.', ',', ';', ':', '!', '?'
EndPunct == {46, 44, 59, 58, 33, 63}

----------------------------------------------------------------------------
(* Strings *)

\* char::is_whitespace: the code points with the Unicode White_Space property
IsWhitespace(c) ==
    \/ c \in 9..13
    \/ c = 32
    \/ c = 133
    \/ c = 160
    \/ c = 5760
    \/ c \in 8192..8202
    \/ c \in {8232, 8233, 8239, 8287, 12288}

\* char::len_utf8
Utf8Len(c) ==
    IF c < 128 THEN 1 ELSE IF c < 2048 THEN 2 ELSE IF c < 65536 THEN 3 ELSE 4

\* str::len: the length in bytes, the sum of the UTF-8 lengths of the
\* characters (the characters of at least 1, 2, 3 and 4 bytes, counted)
ByteLen(s) ==
    Len(s)
    + Len(SelectSeq(s, LAMBDA c : Utf8Len(c) >= 2))
    + Len(SelectSeq(s, LAMBDA c : Utf8Len(c) >= 3))
    + Len(SelectSeq(s, LAMBDA c : Utf8Len(c) >= 4))

RECURSIVE TrimStart(_)
\* str::trim_start: the string without its leading whitespace
TrimStart(s) ==
    IF s # <<>> /\ IsWhitespace(Head(s)) THEN TrimStart(Tail(s)) ELSE s

RECURSIVE TrimEnd(_)
\* str::trim_end: the string without its trailing whitespace
TrimEnd(s) ==
    IF s # <<>> /\ IsWhitespace(s[Len(s)])
    THEN TrimEnd(SubSeq(s, 1, Len(s) - 1))
    ELSE s

\* str::trim: the string without its leading and trailing whitespace
Trim(s) == TrimEnd(TrimStart(s))

\* str::ends_with(char)
EndsWith(s, c) == s # <<>> /\ s[Len(s)] = c

RECURSIVE Join(_, _)
\* [&str]::join(sep)
Join(block, sep) ==
    IF block = <<>> THEN <<>>
    ELSE IF Len(block) = 1 THEN block[1]
    ELSE block[1] \o sep \o Join(Tail(block), sep)

\* one item of str::lines: a trailing "\n" or "\r\n" is removed
StripLineEnd(l) ==
    IF EndsWith(l, LF)
    THEN LET body == SubSeq(l, 1, Len(l) - 1) IN
         IF EndsWith(body, 13) THEN SubSeq(body, 1, Len(body) - 1) ELSE body
    ELSE l

\* the places of the '\n' characters of a text
LineEnds(t) == {k \in 1..Len(t) : t[k] = LF}

\* the place of the m-th '\n' of a text, 0 for m = 0
LineEnd(t, m) ==
    IF m = 0 THEN 0
    ELSE CHOOSE e \in LineEnds(t) : Cardinality({x \in LineEnds(t) : x <= e}) = m

\* str::lines: the text is cut after every '\n', and every piece loses its line
\* ending; what follows the last '\n' is a line unless it is empty
Lines(t) ==
    LET n == Cardinality(LineEnds(t))
        count == IF LineEnd(t, n) < Len(t) THEN n + 1 ELSE n
    IN [m \in 1..count |->
           StripLineEnd(SubSeq(t, LineEnd(t, m - 1) + 1,
                               IF m <= n THEN LineEnd(t, m) ELSE Len(t)))]

----------------------------------------------------------------------------
(* Inputs *)

Rep(c, n) == [k \in 1..n |-> c]

\* the lines every input is made of
CorePool ==
    { <<>>,                                       \* ""
      <<Space, 13>>,                              \* " \r"
      <<Space, 97, Space, 98, 9>>,                \* " a b\t"
      <<68, 111, 110, 101, 46>>,                  \* "Done."
      Rep(97, (HeadingMaxLen - 2) \div 2),        \* 39 x 'a'
      Rep(97, HeadingMaxLen - 1),                 \* 79 x 'a'
      Rep(97, HeadingMaxLen),                     \* 80 x 'a'
      Rep(233, HeadingMaxLen \div 2) }            \* 40 x U+00E9: 80 bytes

\* one short line for every ending punctuation character
PunctLines == { <<97, p>> : p \in EndPunct }

\* a document of three blocks with leading, repeated and trailing blank lines
ThreeBlocks ==
    << <<>>,
       <<Space, 97, Space, 98, 9>>,
       <<>>,
       <<Space, 13>>,
       Rep(97, (HeadingMaxLen - 2) \div 2),
       <<68, 111, 110, 101, 46>>,
       <<Space, 13>>,
       Rep(97, HeadingMaxLen - 1),
       <<>> >>

InputLines ==
    UNION { [1..n -> CorePool] : n \in 0..MaxLines }
    \cup { <<l>> : l \in PunctLines }
    \cup { ThreeBlocks }

\* the text whose lines are ls
Unlines(ls) == Join(ls, <<LF>>)

InputTexts == { Unlines(ls) : ls \in InputLines }

----------------------------------------------------------------------------
(* Results *)

NoResult == [tag |-> "None"]
Ok(v) == [tag |-> "Ok", val |-> v]
Err(m) == [tag |-> "Err", msg |-> m]

Commands == {"pdf", "export", "install"}

\* markdown_content: no byte, no more bytes than a pipe holds, more than that
ContentSizes == {"empty", "small", "large"}

EntryPoint(c) ==
    IF c = "pdf" THEN "read" ELSE IF c = "export" THEN "spawn" ELSE "channel"

Init ==
    /\ cmd \in Commands
    /\ pc = EntryPoint(cmd)
    /\ ret = NoResult
    /\ file \in (IF cmd = "pdf" THEN InputTexts ELSE {<<>>})
    /\ text = <<>>
    /\ lines = <<>>
    /\ i = 0
    /\ blocks = <<>>
    /\ current_block = <<>>
    /\ j = 0
    /\ result = <<>>
    /\ content \in (IF cmd = "export" THEN ContentSizes ELSE {"empty"})
    /\ child = "none"
    /\ stdin = "none"
    /\ child_stdin = "none"
    /\ child_out = "none"
    /\ reading = FALSE
    /\ status = "none"
    /\ wpc = "none"
    /\ wres = NoResult
    /\ chan = <<>>
    /\ tx = "none"
    /\ rx = "none"

----------------------------------------------------------------------------
(* convert_pdf_to_markdown *)

\* std::fs::read(file_path)
ReadFile ==
    /\ cmd = "pdf" /\ pc = "read"
    /\ \E ok \in BOOLEAN :
         IF ok
         THEN /\ pc' = "extract"
              /\ ret' = ret
         ELSE /\ pc' = "done"
              /\ ret' = Err("Impossible de lire le fichier")
    /\ UNCHANGED <<cmd, pdfVars, exportVars, installVars>>

\* pdf_extract::extract_text_from_mem(&bytes), then the set-up of the first loop
ExtractText ==
    /\ cmd = "pdf" /\ pc = "extract"
    /\ \E ok \in BOOLEAN :
         IF ok
         THEN /\ pc' = "segment"
              /\ ret' = ret
              /\ text' = file
              /\ lines' = Lines(file)
         ELSE /\ pc' = "done"
              /\ ret' = Err("Erreur d'extraction du texte PDF")
              /\ UNCHANGED <<text, lines>>
    /\ blocks' = <<>>
    /\ current_block' = <<>>
    /\ i' = 0
    /\ UNCHANGED <<cmd, file, j, result, exportVars, installVars>>

\* PushBlock with the block put in front
PushBlockFront(bs, cur) == <<cur>> \o bs

\* blocks.push(current_block.clone())
PushBlock(bs, cur) == Append(bs, cur)

\* SegmentStep with the untrimmed line pushed
SegmentStepNoTrim(bs, cur, line) ==
    LET trimmed == Trim(line) IN
    IF trimmed = <<>>
    THEN IF cur # <<>>
         THEN [blocks |-> PushBlock(bs, cur), current_block |-> <<>>]
         ELSE [blocks |-> bs, current_block |-> cur]
    ELSE [blocks |-> bs, current_block |-> Append(cur, line)]

\* SegmentStep without the test of `!current_block.is_empty()`
SegmentStepAlwaysSeal(bs, cur, line) ==
    LET trimmed == Trim(line) IN
    IF trimmed = <<>>
    THEN [blocks |-> PushBlock(bs, cur), current_block |-> <<>>]
    ELSE [blocks |-> bs, current_block |-> Append(cur, trimmed)]

\* SegmentStep with the emptiness test on the untrimmed line
SegmentStepEmptyOnly(bs, cur, line) ==
    LET trimmed == Trim(line) IN
    IF line = <<>>
    THEN IF cur # <<>>
         THEN [blocks |-> PushBlock(bs, cur), current_block |-> <<>>]
         ELSE [blocks |-> bs, current_block |-> cur]
    ELSE [blocks |-> bs, current_block |-> Append(cur, trimmed)]

\* SegmentStep without `current_block.clear()`
SegmentStepNoClear(bs, cur, line) ==
    LET trimmed == Trim(line) IN
    IF trimmed = <<>>
    THEN IF cur # <<>>
         THEN [blocks |-> PushBlock(bs, cur), current_block |-> cur]
         ELSE [blocks |-> bs, current_block |-> cur]
    ELSE [blocks |-> bs, current_block |-> Append(cur, trimmed)]

\* the body of `for line in &lines`: the blocks and the current block after `line`
SegmentStep(bs, cur, line) ==
    LET trimmed == Trim(line) IN
    IF trimmed = <<>>
    THEN IF cur # <<>>
         THEN [blocks |-> PushBlock(bs, cur), current_block |-> <<>>]
         ELSE [blocks |-> bs, current_block |-> cur]
    ELSE [blocks |-> bs, current_block |-> Append(cur, trimmed)]

\* `if !current_block.is_empty() { blocks.push(current_block); }`
SealLast(bs, cur) == IF cur # <<>> THEN PushBlock(bs, cur) ELSE bs

\* one iteration of `for line in &lines`
SegmentLine ==
    /\ cmd = "pdf" /\ pc = "segment" /\ i < Len(lines)
    /\ LET s == SegmentStep(blocks, current_block, lines[i + 1]) IN
         /\ blocks' = s.blocks
         /\ current_block' = s.current_block
    /\ i' = i + 1
    /\ UNCHANGED <<cmd, pc, ret, file, text, lines, j, result, exportVars, installVars>>

\* the end of the first loop: the open block is sealed, `result` is created
EndOfInput ==
    /\ cmd = "pdf" /\ pc = "segment" /\ i = Len(lines)
    /\ blocks' = SealLast(blocks, current_block)
    /\ result' = <<>>
    /\ j' = 0
    /\ pc' = "render"
    /\ UNCHANGED <<cmd, ret, file, text, lines, i, current_block, exportVars, installVars>>

\* IsShort with `<=` for `<`
IsShortInclusive(t) == ByteLen(t) <= HeadingMaxLen

\* text.len() < 80
IsShort(t) == ByteLen(t) < HeadingMaxLen

\* the text ends with none of '.', ',', ';', ':', '!', '?'
NoEndingPunct(t) == \A p \in EndPunct : ~EndsWith(t, p)

\* block.len() <= 2
IsSingleBlock(block) == Len(block) <= MaxHeadingLines

\* PushSeparator without the test of `!result.is_empty()`
PushSeparatorAlways(res) == res \o Separator

\* `if !result.is_empty() { result.push_str("\n\n"); }`
PushSeparator(res) == IF res # <<>> THEN res \o Separator ELSE res

\* the body of `for block in &blocks`: `result` after `block`
RenderStep(res, block) ==
    LET t == Join(block, <<Space>>)
        is_short == IsShort(t)
        no_ending_punct == NoEndingPunct(t)
        is_single_block == IsSingleBlock(block)
    IN IF t = <<>> THEN res
       ELSE IF is_short /\ no_ending_punct /\ is_single_block
            THEN PushSeparator(res) \o HeadingPrefix \o t
            ELSE PushSeparator(res) \o t

\* one iteration of `for block in &blocks`
RenderBlock ==
    /\ cmd = "pdf" /\ pc = "render" /\ j < Len(blocks)
    /\ result' = RenderStep(result, blocks[j + 1])
    /\ j' = j + 1
    /\ UNCHANGED <<cmd, pc, ret, file, text, lines, i, blocks, current_block,
                   exportVars, installVars>>

\* ReturnMarkdown with an error for a document without text
ReturnErrOnEmpty ==
    /\ cmd = "pdf" /\ pc = "render" /\ j = Len(blocks)
    /\ ret' = IF result = <<>> THEN Err("Aucun texte") ELSE Ok(result)
    /\ pc' = "done"
    /\ UNCHANGED <<cmd, pdfVars, exportVars, installVars>>

\* Ok(result)
ReturnMarkdown ==
    /\ cmd = "pdf" /\ pc = "render" /\ j = Len(blocks)
    /\ ret' = Ok(result)
    /\ pc' = "done"
    /\ UNCHANGED <<cmd, pdfVars, exportVars, installVars>>

----------------------------------------------------------------------------
(* export_markdown_via_pandoc *)

\* Command::new("pandoc") ... .spawn()
SpawnPandoc ==
    /\ cmd = "export" /\ pc = "spawn"
    /\ \E ok \in BOOLEAN :
         IF ok
         THEN /\ child' = "running"
              /\ stdin' = "open"
              /\ child_stdin' = "open"
              /\ child_out' = "open"
              /\ pc' = "write"
              /\ ret' = ret
         ELSE /\ UNCHANGED <<child, stdin, child_stdin, child_out>>
              /\ pc' = "done"
              /\ ret' = Err("Erreur lors de l'execution de pandoc")
    /\ UNCHANGED <<cmd, content, reading, status, pdfVars, installVars>>

\* a holder of the read end of the child's stdin starts to drain it
PandocReadStdin ==
    /\ child_stdin = "open" /\ ~reading
    /\ reading' = TRUE
    /\ UNCHANGED <<cmd, pc, ret, content, child, stdin, child_stdin, child_out,
                   status, pdfVars, installVars>>

\* the read end of the child's stdin is closed by its last holder, which may
\* go on running
PandocCloseStdin ==
    /\ child_stdin = "open"
    /\ child_stdin' = "closed"
    /\ reading' = FALSE
    /\ UNCHANGED <<cmd, pc, ret, content, child, stdin, child_out, status,
                   pdfVars, installVars>>

\* the write ends of the child's stdout and stderr are closed by their last
\* holder
PandocCloseOutput ==
    /\ child_out = "open"
    /\ child_out' = "closed"
    /\ UNCHANGED <<cmd, pc, ret, content, child, stdin, child_stdin, reading,
                   status, pdfVars, installVars>>

\* the pandoc process exits; it stays a zombie until it is waited on, unless
\* the system reaps it at once (SIGCHLD ignored); its ends of the pipes are
\* closed unless a descendant holds them too
PandocExit ==
    /\ child = "running"
    /\ \E st \in {"success", "failure"}, auto \in BOOLEAN,
          keep_in \in BOOLEAN, keep_out \in BOOLEAN :
         /\ status' = st
         /\ child' = IF auto THEN "autoreaped" ELSE "zombie"
         /\ child_stdin' = IF keep_in THEN child_stdin ELSE "closed"
         /\ child_out' = IF keep_out THEN child_out ELSE "closed"
         /\ reading' = (keep_in /\ reading)
    /\ UNCHANGED <<cmd, pc, ret, content, stdin, pdfVars, installVars>>

\* stdin.write_all(..) can return: there is nothing to write, or the read end
\* of the pipe is closed (a broken pipe), or the pipe takes the bytes (they
\* fit, or they are read); otherwise the call blocks
WriteCanReturn ==
    \/ content = "empty"
    \/ child_stdin = "closed"
    \/ content = "small"
    \/ reading

\* child.stdin.take(), stdin.write_all(..)?; the taken ChildStdin is dropped, and
\* so closed, at the end of the `if let` block and on the early return alike; the
\* early return drops `child`, and dropping a Child neither kills nor waits
WriteStdin ==
    /\ cmd = "export" /\ pc = "write"
    /\ WriteCanReturn
    /\ stdin' = "closed"
    /\ IF content = "empty" \/ child_stdin = "open"
       THEN /\ pc' = "wait"
            /\ ret' = ret
       ELSE /\ pc' = "done"
            /\ ret' = Err("Erreur d'ecriture vers pandoc")
    /\ UNCHANGED <<cmd, content, child, child_stdin, child_out, reading, status,
                   pdfVars, installVars>>

\* child.wait_with_output() and the test of the exit status: the call reads the
\* child's stdout and stderr to their end, which comes when every holder has
\* closed them, and then waits, so it blocks while the process runs; wait()
\* fails when the process is no child to wait for any more, and reaps it
\* otherwise
WaitWithOutput ==
    /\ cmd = "export" /\ pc = "wait"
    /\ child_out = "closed"
    /\ child # "running"
    /\ child' = IF child = "zombie" THEN "reaped" ELSE child
    /\ ret' = IF child # "zombie" THEN Err("Erreur lors de l'attente de pandoc")
              ELSE IF status = "success" THEN Ok(<<>>)
              ELSE Err("Pandoc a echoue")
    /\ pc' = "done"
    /\ UNCHANGED <<cmd, content, stdin, child_stdin, child_out, reading, status,
                   pdfVars, installVars>>

----------------------------------------------------------------------------
(* install_wkhtmltopdf_winget *)

\* what Command::output() can give the worker
WingetOutcomes ==
    { [tag |-> "Err"],
      [tag |-> "Ok", success |-> TRUE],
      [tag |-> "Ok", success |-> FALSE] }

\* std::sync::mpsc::channel() and std::thread::spawn(..)
SpawnWorker ==
    /\ cmd = "install" /\ pc = "channel"
    /\ tx' = "alive"
    /\ rx' = "alive"
    /\ chan' = <<>>
    /\ wpc' = "run"
    /\ pc' = "recv"
    /\ UNCHANGED <<cmd, ret, wres, pdfVars, exportVars>>

\* worker: Command::new("winget") ... .output()
WorkerRun ==
    /\ wpc = "run"
    /\ \E r \in WingetOutcomes : wres' = r
    /\ wpc' = "send"
    /\ UNCHANGED <<cmd, pc, ret, chan, tx, rx, pdfVars, exportVars>>

\* worker: `let _ = tx.send(result);` a send to a dropped Receiver is an error,
\* which is ignored
WorkerSend ==
    /\ wpc = "send"
    /\ chan' = IF rx = "alive" THEN Append(chan, wres) ELSE chan
    /\ wpc' = "exit"
    /\ UNCHANGED <<cmd, pc, ret, wres, tx, rx, pdfVars, exportVars>>

\* worker: the closure ends and drops tx
WorkerExit ==
    /\ wpc = "exit"
    /\ tx' = "dropped"
    /\ wpc' = "finished"
    /\ UNCHANGED <<cmd, pc, ret, wres, chan, rx, pdfVars, exportVars>>

\* worker: the closure unwinds before the send; unwinding drops tx
WorkerUnwind ==
    /\ wpc = "run"
    /\ tx' = "dropped"
    /\ wpc' = "finished"
    /\ UNCHANGED <<cmd, pc, ret, wres, chan, rx, pdfVars, exportVars>>

\* InstallResult without the test of `output.status.success()`
InstallResultIgnoreStatus(received, m) ==
    IF ~received THEN Err("Erreur de communication")
    ELSE IF m.tag = "Err" THEN Err("Erreur lors de l'execution de winget")
    ELSE Ok(<<>>)

\* the value install_wkhtmltopdf_winget returns for what rx.recv() gave:
\* a message m, or a RecvError (received = FALSE)
InstallResult(received, m) ==
    IF ~received THEN Err("Erreur de communication")
    ELSE IF m.tag = "Err" THEN Err("Erreur lors de l'execution de winget")
    ELSE IF m.success THEN Ok(<<>>)
    ELSE Err("Installation echouee")

\* rx.recv() blocks until a message is in the channel or every Sender is
\* dropped; then the function returns, which drops rx
Recv ==
    /\ cmd = "install" /\ pc = "recv"
    /\ chan # <<>> \/ tx = "dropped"
    /\ ret' = IF chan # <<>> THEN InstallResult(TRUE, Head(chan))
              ELSE InstallResult(FALSE, NoResult)
    /\ chan' = IF chan # <<>> THEN Tail(chan) ELSE chan
    /\ rx' = "dropped"
    /\ pc' = "done"
    /\ UNCHANGED <<cmd, wpc, wres, tx, pdfVars, exportVars>>

----------------------------------------------------------------------------
(* Specifications *)

\* the steps of the thread that runs the command handler
Handler ==
    \/ ReadFile
    \/ ExtractText
    \/ SegmentLine
    \/ EndOfInput
    \/ RenderBlock
    \/ ReturnMarkdown
    \/ SpawnPandoc
    \/ WriteStdin
    \/ WaitWithOutput
    \/ SpawnWorker
    \/ Recv

\* the steps of the thread install_wkhtmltopdf_winget spawns
Worker ==
    \/ WorkerRun
    \/ WorkerSend
    \/ WorkerExit
    \/ WorkerUnwind

\* the steps of the process export_markdown_via_pandoc spawns, and of its
\* descendants
Pandoc ==
    \/ PandocReadStdin
    \/ PandocCloseStdin
    \/ PandocCloseOutput
    \/ PandocExit

Next == Handler \/ Worker \/ Pandoc

Spec == Init /\ [][Next]_vars

\* the handler's thread keeps running while it can take a step; nothing is
\* assumed of the worker, whose winget run may never end, nor of the pandoc
\* process, which may never read its stdin, never close a pipe and never exit
FairSpec == Spec /\ WF_vars(Handler)

----------------------------------------------------------------------------
(* The two loops of convert_pdf_to_markdown as functions of the lines *)

RECURSIVE SegmentFrom(_, _, _)
\* the first loop and the seal after it, started with blocks bs and current
\* block cur, over the lines ls
SegmentFrom(bs, cur, ls) ==
    IF ls = <<>> THEN SealLast(bs, cur)
    ELSE LET s == SegmentStep(bs, cur, Head(ls)) IN
         SegmentFrom(s.blocks, s.current_block, Tail(ls))

\* `blocks` after the first loop over the lines ls
Segment(ls) == SegmentFrom(<<>>, <<>>, ls)

RECURSIVE RenderFrom(_, _)
\* the second loop, started with result res, over the blocks bs
RenderFrom(res, bs) ==
    IF bs = <<>> THEN res ELSE RenderFrom(RenderStep(res, Head(bs)), Tail(bs))

----------------------------------------------------------------------------
(* Vocabulary of the properties *)

\* a line that is empty or made of whitespace only
Blank(l) == \A k \in 1..Len(l) : IsWhitespace(l[k])

\* the first loop has ended
Segmented == cmd = "pdf" /\ pc \in {"render", "done"} /\ ret.tag # "Err"

\* the step taken is one iteration of the first loop
LineStep == cmd = "pdf" /\ pc = "segment" /\ i' = i + 1

\* the step taken is the end of the first loop
EndStep == cmd = "pdf" /\ pc = "segment" /\ pc' = "render"

\* the step taken is one iteration of the second loop
BlockStep == cmd = "pdf" /\ pc = "render" /\ j' = j + 1

JoinedText(block) == Join(block, <<Space>>)

\* the three conditions of a heading, on the joined text and the line count
HeadingConditions(block) ==
    /\ ByteLen(JoinedText(block)) < 80
    /\ \/ JoinedText(block) = <<>>
       \/ JoinedText(block)[Len(JoinedText(block))] \notin {46, 44, 59, 58, 33, 63}
    /\ Len(block) <= 2

\* "## " followed by the joined text, or the joined text unchanged
Rendering(block) ==
    IF HeadingConditions(block)
    THEN <<35, 35, 32>> \o JoinedText(block)
    ELSE JoinedText(block)

RECURSIVE Document(_)
\* the renderings in order, one "\n\n" between consecutive ones
Document(bs) ==
    IF bs = <<>> THEN <<>>
    ELSE IF Len(bs) = 1 THEN Rendering(bs[1])
    ELSE Rendering(bs[1]) \o <<10, 10>> \o Document(Tail(bs))

RECURSIVE TotalLen(_)
TotalLen(ss) == IF ss = <<>> THEN 0 ELSE Len(Head(ss)) + TotalLen(Tail(ss))

RECURSIVE Flatten(_)
Flatten(ss) == IF ss = <<>> THEN <<>> ELSE Head(ss) \o Flatten(Tail(ss))

----------------------------------------------------------------------------
(* C1 *)

C1_Step ==
    BlockStep =>
        LET b == blocks[j + 1]
            sep == IF result = <<>> THEN <<>> ELSE <<10, 10>>
        IN IF HeadingConditions(b)
           THEN result' = result \o sep \o <<35, 35, 32>> \o JoinedText(b)
           ELSE result' = result \o sep \o JoinedText(b)

\* C1: every block is rendered as a Heading ("## " before its joined text) if and
\* only if its joined text is shorter than 80 bytes, does not end with one of
\* . , ; : ! ? and the block has at most 2 lines; otherwise as a Paragraph (the
\* joined text alone).
C1_HeadingIff == [][C1_Step]_vars

\* a 79-byte line became a Heading and an 80-byte line a Paragraph
C1_Witness ==
    /\ cmd = "pdf" /\ pc = "done"
    /\ lines = <<Rep(97, 79), <<>>, Rep(97, 80)>>
    /\ ret = Ok(<<35, 35, 32>> \o Rep(97, 79) \o <<10, 10>> \o Rep(97, 80))

----------------------------------------------------------------------------
(* C2 *)

\* the places in `lines` where a maximal run of non-blank lines starts
RunStarts ==
    {s \in 1..Len(lines) : ~Blank(lines[s]) /\ (s = 1 \/ Blank(lines[s - 1]))}

\* the place where the run that starts at s ends
RunEnd(s) ==
    CHOOSE e \in s..Len(lines) :
        /\ \A m \in s..e : ~Blank(lines[m])
        /\ e = Len(lines) \/ Blank(lines[e + 1])

\* the trimmed lines of the run that starts at s
Run(s) == [m \in 1..(RunEnd(s) - s + 1) |-> Trim(lines[s + m - 1])]

\* the non-blank lines, trimmed, in input order
TrimmedNonBlank == SelectSeq([k \in 1..Len(lines) |-> Trim(lines[k])], LAMBDA l : l # <<>>)

\* C2: after the first loop the blocks are exactly the maximal runs of
\* consecutive non-blank lines, trimmed, in input order: their concatenation is
\* the trimmed non-blank lines in order, and two lines share a block if and only
\* if no blank line lies between them.
C2_MaximalRuns ==
    Segmented =>
        /\ Len(blocks) = Cardinality(RunStarts)
        /\ \A s \in RunStarts :
               blocks[Cardinality({r \in RunStarts : r <= s})] = Run(s)
        /\ Flatten(blocks) = TrimmedNonBlank

\* a blank line between two lines made two blocks; one block has two lines
C2_Witness ==
    /\ Segmented
    /\ Len(lines) = 3
    /\ blocks = <<<<Rep(97, 79)>>, <<<<97, 32, 98>>>>>>

----------------------------------------------------------------------------
(* C3 *)

\* C3: in every state of the first loop and after it, every block in `blocks`
\* has at least one line and no empty line, so its joined text is not empty and
\* the skip of a block with an empty joined text is never taken.
C3_NoEmptyBlock ==
    \A k \in 1..Len(blocks) :
        /\ Len(blocks[k]) >= 1
        /\ \A m \in 1..Len(blocks[k]) : blocks[k][m] # <<>>
        /\ JoinedText(blocks[k]) # <<>>

\* leading, consecutive and trailing blank lines around one block
C3_Witness ==
    /\ cmd = "pdf" /\ pc = "render"
    /\ Len(lines) = 3 /\ Blank(lines[1]) /\ Blank(lines[2]) /\ ~Blank(lines[3])
    /\ Len(blocks) = 1

----------------------------------------------------------------------------
(* C4 *)

\* C4: the returned string is the renderings of the blocks in block order with
\* exactly one "\n\n" between consecutive blocks and none before the first or
\* after the last: n renderings and n-1 separators, and the empty string when
\* there is no block.
C4_Document ==
    (cmd = "pdf" /\ pc = "done" /\ ret.tag = "Ok") =>
        /\ ret.val = Document(blocks)
        /\ Len(ret.val) =
             TotalLen([k \in 1..Len(blocks) |-> Rendering(blocks[k])])
             + (IF blocks = <<>> THEN 0 ELSE 2 * (Len(blocks) - 1))
        /\ blocks = <<>> => ret.val = <<>>

\* three blocks, a heading, a paragraph and a heading, with two separators
C4_Witness ==
    /\ cmd = "pdf" /\ pc = "done"
    /\ Len(blocks) = 3
    /\ ret = Ok(<<35, 35, 32, 97, 32, 98, 10, 10>>
                \o Rep(97, 39) \o <<32, 68, 111, 110, 101, 46, 10, 10>>
                \o <<35, 35, 32>> \o Rep(97, 79))

----------------------------------------------------------------------------
(* C5 *)

C5_NoFailure ==
    (cmd = "pdf" /\ pc \in {"segment", "render"}) =>
        /\ ret'.tag # "Err"
        /\ pc' = "done" => ret' = Ok(result)

\* C5: once the text is extracted, for every sequence of lines (the empty one
\* too) the two loops end and the function returns Ok of the Markdown string;
\* it never returns Err and never stops without a result.
C5_Total ==
    /\ [][C5_NoFailure]_vars
    /\ (cmd = "pdf" /\ pc = "segment") ~> (pc = "done" /\ ret = Ok(result))

\* the empty sequence of lines gave Ok("")
C5_Witness ==
    /\ cmd = "pdf" /\ pc = "done"
    /\ lines = <<>>
    /\ ret = Ok(<<>>)

----------------------------------------------------------------------------
(* C6 *)

\* the blank lines that are inserted
BlankPool == { <<>>, <<Space, 13>>, <<9, 160>> }

\* the places p of `lines`, between line p and line p+1, that lie between two
\* blocks separated by blank lines
Gaps ==
    {p \in 1..(Len(lines) - 1) :
        /\ Blank(lines[p]) \/ Blank(lines[p + 1])
        /\ \E a \in 1..p : ~Blank(lines[a])
        /\ \E b \in (p + 1)..Len(lines) : ~Blank(lines[b])}

Insertions == UNION { [1..n -> BlankPool] : n \in 1..MaxInsert }

InsertAt(ls, p, ins) == SubSeq(ls, 1, p) \o ins \o SubSeq(ls, p + 1, Len(ls))

\* C6: inserting any number of blank lines between two blocks separated by
\* blank lines changes neither the blocks nor the Markdown output.
C6_BlankInsertion ==
    Segmented =>
        \A p \in Gaps : \A ins \in Insertions :
            /\ Segment(InsertAt(lines, p, ins)) = blocks
            /\ pc = "done" => Ok(RenderFrom(<<>>, Segment(InsertAt(lines, p, ins)))) = ret

\* two blocks separated by one blank line, the function has returned
C6_Witness ==
    /\ cmd = "pdf" /\ pc = "done"
    /\ Gaps = {1, 2}
    /\ Len(blocks) = 2

----------------------------------------------------------------------------
(* C7 *)

C7_Step ==
    /\ (cmd = "pdf" /\ pc # "segment" /\ pc' = "segment") =>
           current_block' = <<>> /\ blocks' = <<>>
    /\ LineStep =>
           LET line == lines[i + 1] IN
           /\ current_block' # <<>> <=> ~Blank(line)
           /\ ~Blank(line) =>
                  current_block' = Append(current_block, Trim(line)) /\ blocks' = blocks
           /\ (Blank(line) /\ current_block # <<>>) =>
                  blocks' = Append(blocks, current_block)
           /\ (Blank(line) /\ current_block = <<>>) =>
                  current_block' = current_block /\ blocks' = blocks
    /\ EndStep =>
           blocks' = IF current_block # <<>> THEN Append(blocks, current_block) ELSE blocks
    /\ pc # "segment" => blocks' = blocks

\* C7: the first loop starts with an empty accumulator; after each line the
\* accumulator is non-empty exactly when the line was not blank; a block is
\* appended exactly on a blank line or on the end of input while the accumulator
\* is non-empty; a blank line with an empty accumulator changes nothing.
C7_StateMachine == [][C7_Step]_vars

\* a blank line has just sealed a block
C7_Witness ==
    /\ cmd = "pdf" /\ pc = "segment"
    /\ i = 2 /\ Blank(lines[2]) /\ ~Blank(lines[1])
    /\ current_block = <<>>
    /\ Len(blocks) = 1

----------------------------------------------------------------------------
(* C8 *)

C8_Step ==
    \A k \in 1..Len(blocks) : k <= Len(blocks') /\ blocks'[k] = blocks[k]

\* C8: a block that is in `blocks` stays there unchanged at its place, whatever
\* lines are processed afterwards.
C8_ClosedBlocksKept == [][C8_Step]_vars

\* a second block was sealed after the first
C8_Witness ==
    /\ cmd = "pdf" /\ pc = "render"
    /\ Len(blocks) = 2
    /\ blocks[1] # blocks[2]

----------------------------------------------------------------------------
(* C9 *)

\* C9: when export_markdown_via_pandoc returns after pandoc was spawned, the
\* child's stdin is closed and the child has been waited on: it is reaped, no
\* running process and no zombie is left.
C9_ReleasedOnEveryPath ==
    (cmd = "export" /\ pc = "done" /\ child # "none") =>
        stdin = "closed" /\ child \in {"reaped", "autoreaped"}

----------------------------------------------------------------------------
(* C10 *)

\* the worker sent the output of a winget run that exited successfully
SentSuccess ==
    /\ wpc \in {"exit", "finished"}
    /\ wres = [tag |-> "Ok", success |-> TRUE]

C10_Once ==
    /\ ret.tag # "None" => ret' = ret
    /\ Len(chan') <= 1

\* C10: the worker sends at most one message; once the worker has finished, the
\* receive completes and the function returns, exactly once, Ok(()) if and only
\* if the worker sent the output of a successful winget run, Err otherwise.
C10_Handoff ==
    /\ []((cmd = "install" /\ pc = "done") =>
             /\ ret.tag \in {"Ok", "Err"}
             /\ ret.tag = "Ok" <=> SentSuccess)
    /\ [][C10_Once]_vars
    /\ (cmd = "install" /\ wpc = "finished") ~> (pc = "done" /\ ret.tag # "None")

\* the function returned Ok(()) after the worker finished
C10_Witness ==
    /\ cmd = "install" /\ pc = "done"
    /\ wpc = "finished"
    /\ ret = Ok(<<>>)

====
